---- MODULE Spec2Model ----
(***************************************************************************)
(* AreaMeasurementPanel (src/ui/area-measurement-panel.ts).                *)
(*                                                                         *)
(* The panel is a view-controller on a synchronous event bus.  One step of *)
(* the model is one complete run of one handler: a button action, a public *)
(* method call, or the delivery of one event the panel subscribes to.      *)
(* events.fire() is synchronous, so an event the panel fires and also      *)
(* subscribes to (area.measure.ridge.stop, area.measure.split.cancel) runs *)
(* the panel's own subscription inside the firing handler.  Events of the  *)
(* measurement tool (updated, show, hide, split.cancel, ridge.stop) are    *)
(* delivered between handlers, in any order.  A physical click that runs a *)
(* bound action more than once (PCUI click and DOM listeners) is that many *)
(* steps.                                                                  *)
(*                                                                         *)
(* Numbers of the snapshot are integers in thousandths (1500 is 1.500), so *)
(* that toFixed(3) is a computed conversion.  Widgets that are only ever   *)
(* written (edge labels, area label, ridge and surface list, Pick button   *)
(* colours) are left out: no handler reads them back.                      *)
(***************************************************************************)
EXTENDS Integers, Sequences, FiniteSets, TLC

VARIABLES
    visible,            \* private visible
    display,            \* this.dom.style.display
    splitMode,          \* private splitMode
    lastData,           \* private lastData (None is null)
    addingAuto,         \* closure variable of the Add Ridge handler
    ridgeToggleText,    \* ridgeToggleBtn.text
    addRidgeText,       \* addRidgeBtn.text
    splitResultLabel,   \* splitResultLabel.text
    planarityLabel,     \* planarityLabel.text
    pointRows,          \* children of pointsContainer
    fired,              \* events fired by the handler that ran last, in order
    renders,            \* snapshots passed to update() by the handler that ran last
    lastRidge,          \* most recent ridge event on the bus: "none", "start", "stop"
    lastUpdated,        \* snapshot of the most recent area.measure.updated received
    op                  \* the handler that ran last

vars == <<visible, display, splitMode, lastData, addingAuto, ridgeToggleText,
          addRidgeText, splitResultLabel, planarityLabel, pointRows, fired,
          renders, lastRidge, lastUpdated, op>>

\* ---------------------------------------------------------------- bounds
MaxPoints == 2
MaxSel == 2

\* ------------------------------------------------------- optional values
None == {}
Some(x) == {x}
IsSome(o) == o # {}
Get(o) == CHOOSE x \in o : TRUE

\* ------------------------------------------------------------ event names
EvDisableTemporary == "area.measure.disable.temporary"
EvClear == "area.measure.clear"
EvClosePolygon == "area.measure.closePolygon"
EvExit == "area.measure.exit"
EvRidgeStart == "area.measure.ridge.start"
EvRidgeStop == "area.measure.ridge.stop"
EvRedo == "area.measure.redo"
EvSplitSelect == "area.measure.split.select"
EvSplitCancel == "area.measure.split.cancel"
EvSplitUndo == "area.measure.split.undo"
EvSplitClearAll == "area.measure.split.clearAll"
EvUpdated == "area.measure.updated"
EvShow == "area.measure.show"
EvHide == "area.measure.hide"

\* -------------------------------------------------------------- snapshots
\* Number.prototype.toFixed(3) of a non-negative number given in thousandths
Pad3(r) == IF r < 10 THEN "00" \o ToString(r)
           ELSE IF r < 100 THEN "0" \o ToString(r)
           ELSE ToString(r)
ToFixed3(x) == ToString(x \div 1000) \o "." \o Pad3(x % 1000)

SeqsUpTo(S, n) == UNION {[1..k -> S] : k \in 0..n}

SplitAreasValues == {[a |-> 1500, b |-> 2500, total |-> 4000]}
NonPlanarityValues == {[max |-> 100, rms |-> 50], [max |-> 300, rms |-> 150]}

\* AreaMeasurementData as far as the panel state depends on it
AreaMeasurementData ==
    UNION {[points : {n},
            splitSelection : {None} \cup {Some(q) : q \in SeqsUpTo(0..(n - 1), MaxSel)},
            splitAreas : {None} \cup {Some(v) : v \in SplitAreasValues},
            nonPlanarity : {None} \cup {Some(v) : v \in NonPlanarityValues}]
           : n \in 0..MaxPoints}

\* ------------------------------------------------- the panel as a record
Panel == [visible |-> visible, display |-> display, splitMode |-> splitMode,
          lastData |-> lastData, addingAuto |-> addingAuto,
          ridgeToggleText |-> ridgeToggleText, addRidgeText |-> addRidgeText,
          splitResultLabel |-> splitResultLabel, planarityLabel |-> planarityLabel,
          pointRows |-> pointRows, fired |-> fired, renders |-> renders,
          lastRidge |-> lastRidge]

\* the panel at the entry of a handler: the per-handler logs start empty
Entry == [Panel EXCEPT !.fired = <<>>, !.renders = <<>>]

\* what a handler can observe or change of the panel (logs excluded)
View(s) == <<s.visible, s.display, s.splitMode, s.lastData, s.addingAuto,
             s.ridgeToggleText, s.addRidgeText, s.splitResultLabel,
             s.planarityLabel, s.pointRows>>

updateSplitButtons(s) == s

makePointRow(s, idx) ==
    [label |-> "P" \o ToString(idx + 1), redo |-> TRUE, pick |-> s.splitMode]

PlanarityText(data) ==
    IF IsSome(data.nonPlanarity) /\ Get(data.nonPlanarity).max > 200
    THEN "Non-planar: max " \o ToFixed3(Get(data.nonPlanarity).max)
         \o ", rms " \o ToFixed3(Get(data.nonPlanarity).rms)
    ELSE IF IsSome(data.nonPlanarity)
    THEN "Planarity OK (max " \o ToFixed3(Get(data.nonPlanarity).max) \o ")"
    ELSE ""

SplitAreasText(v) ==
    "Split areas: " \o ToFixed3(v.a) \o " + " \o ToFixed3(v.b) \o " = " \o ToFixed3(v.total)

\* update testing sel.length for truth instead of sel.length === 1
updateAnySelection(s, data) ==
    LET s1 == [s EXCEPT !.pointRows = [i \in 1..data.points |-> makePointRow(s, i - 1)],
                        !.planarityLabel = PlanarityText(data),
                        !.lastData = Some(data),
                        !.renders = Append(@, data)]
    IN  IF IsSome(data.splitAreas)
        THEN updateSplitButtons(
                 [s1 EXCEPT !.splitResultLabel = SplitAreasText(Get(data.splitAreas)),
                            !.splitMode = FALSE])
        ELSE IF s1.splitMode
        THEN LET sel == IF IsSome(data.splitSelection) THEN Get(data.splitSelection) ELSE <<>>
             IN  IF Len(sel) >= 1
                 THEN [s1 EXCEPT !.splitResultLabel =
                          "Pick second point (selected P" \o ToString(sel[1] + 1) \o ")..."]
                 ELSE [s1 EXCEPT !.splitResultLabel = "Pick two points to split the polygon..."]
        ELSE [s1 EXCEPT !.splitResultLabel = ""]

update(s, data) ==
    LET s1 == [s EXCEPT !.pointRows = [i \in 1..data.points |-> makePointRow(s, i - 1)],
                        !.planarityLabel = PlanarityText(data),
                        !.lastData = Some(data),
                        !.renders = Append(@, data)]
    IN  IF IsSome(data.splitAreas)
        THEN updateSplitButtons(
                 [s1 EXCEPT !.splitResultLabel = SplitAreasText(Get(data.splitAreas)),
                            !.splitMode = FALSE])
        ELSE IF s1.splitMode
        THEN LET sel == IF IsSome(data.splitSelection) THEN Get(data.splitSelection) ELSE <<>>
             IN  IF Len(sel) = 1
                 THEN [s1 EXCEPT !.splitResultLabel =
                          "Pick second point (selected P" \o ToString(sel[1] + 1) \o ")..."]
                 ELSE [s1 EXCEPT !.splitResultLabel = "Pick two points to split the polygon..."]
        ELSE [s1 EXCEPT !.splitResultLabel = ""]

rerender(s) == IF IsSome(s.lastData) THEN update(s, Get(s.lastData)) ELSE s

\* ------------------------------------------ the panel's own subscriptions
onSplitCancel(s) ==
    IF s.splitMode
    THEN rerender([updateSplitButtons([s EXCEPT !.splitMode = FALSE,
                                                !.ridgeToggleText = "Start Ridges"])
                   EXCEPT !.splitResultLabel = ""])
    ELSE s

\* the subscription without its splitMode guard
onRidgeStopUnguarded(s) ==
    rerender(updateSplitButtons([s EXCEPT !.splitMode = FALSE,
                                          !.ridgeToggleText = "Start Ridges"]))

\* the subscription doing nothing
onRidgeStopIgnored(s) == s

onRidgeStop(s) ==
    IF s.splitMode
    THEN rerender(updateSplitButtons([s EXCEPT !.splitMode = FALSE,
                                               !.ridgeToggleText = "Start Ridges"]))
    ELSE s

\* one entry of the log of fired events: the event and the split state at
\* the moment of firing
Fired(s, name, arg) ==
    [name |-> name, arg |-> arg, splitMode |-> s.splitMode,
     ridgeToggleText |-> s.ridgeToggleText, visible |-> s.visible,
     splitResultLabel |-> s.splitResultLabel, planarityLabel |-> s.planarityLabel]

RidgeAfter(prev, name) ==
    IF name = EvRidgeStart THEN "start"
    ELSE IF name = EvRidgeStop THEN "stop"
    ELSE prev

\* delivery of an event to the subscriptions of the panel that can be
\* reached from inside a handler
deliver(s, name) ==
    IF name = EvSplitCancel THEN onSplitCancel(s)
    ELSE IF name = EvRidgeStop THEN onRidgeStop(s)
    ELSE s

\* this.events.fire(name, arg)
fire(s, name, arg) ==
    deliver([s EXCEPT !.fired = Append(@, Fired(s, name, arg)),
                      !.lastRidge = RidgeAfter(@, name)], name)

\* ---------------------------------------------------------- button actions
\* Clear that also drops the cached snapshot
clearActionDropsData(s) ==
    LET s1 == fire(s, EvDisableTemporary, None)
        s2 == IF s1.splitMode
              THEN updateSplitButtons([s1 EXCEPT !.splitMode = FALSE])
              ELSE s1
        s3 == [s2 EXCEPT !.ridgeToggleText = "Start Ridges", !.lastData = None]
        s4 == fire(s3, EvRidgeStop, None)
        s5 == fire(s4, EvSplitCancel, None)
    IN  fire(s5, EvClear, None)

\* Clear that does not tell the tool to stop ridge mode
clearActionNoRidgeStop(s) ==
    LET s1 == fire(s, EvDisableTemporary, None)
        s2 == IF s1.splitMode
              THEN updateSplitButtons([s1 EXCEPT !.splitMode = FALSE])
              ELSE s1
        s3 == [s2 EXCEPT !.ridgeToggleText = "Start Ridges"]
        s5 == fire(s3, EvSplitCancel, None)
    IN  fire(s5, EvClear, None)

\* Clear that notifies the tool before it resets its own split state
clearActionFiresFirst(s) ==
    LET s1 == fire(s, EvDisableTemporary, None)
        s4 == fire(s1, EvRidgeStop, None)
        s5 == fire(s4, EvSplitCancel, None)
        s6 == fire(s5, EvClear, None)
        s7 == IF s6.splitMode
              THEN updateSplitButtons([s6 EXCEPT !.splitMode = FALSE])
              ELSE s6
    IN  [s7 EXCEPT !.ridgeToggleText = "Start Ridges"]

clearAction(s) ==
    LET s1 == fire(s, EvDisableTemporary, None)
        s2 == IF s1.splitMode
              THEN updateSplitButtons([s1 EXCEPT !.splitMode = FALSE])
              ELSE s1
        s3 == [s2 EXCEPT !.ridgeToggleText = "Start Ridges"]
        s4 == fire(s3, EvRidgeStop, None)
        s5 == fire(s4, EvSplitCancel, None)
    IN  fire(s5, EvClear, None)

closeAction(s) == fire(fire(s, EvDisableTemporary, None), EvClosePolygon, None)

exitAction(s) == fire(fire(s, EvDisableTemporary, None), EvExit, None)

\* the toggle flipping splitMode before it disables the tool temporarily
ridgeToggleClickFlipsFirst(s) ==
    LET s2 == [s EXCEPT !.splitMode = ~s.splitMode]
        s1 == fire(s2, EvDisableTemporary, None)
        s3 == IF s1.splitMode
              THEN fire([s1 EXCEPT !.ridgeToggleText = "Stop Ridges"], EvRidgeStart, None)
              ELSE fire([s1 EXCEPT !.ridgeToggleText = "Start Ridges"], EvRidgeStop, None)
    IN  rerender(updateSplitButtons(s3))

ridgeToggleClick(s) ==
    LET s1 == fire(s, EvDisableTemporary, None)
        s2 == [s1 EXCEPT !.splitMode = ~s1.splitMode]
        s3 == IF s2.splitMode
              THEN fire([s2 EXCEPT !.ridgeToggleText = "Stop Ridges"], EvRidgeStart, None)
              ELSE fire([s2 EXCEPT !.ridgeToggleText = "Start Ridges"], EvRidgeStop, None)
    IN  rerender(updateSplitButtons(s3))

addRidgeClick(s) ==
    LET s1 == fire(s, EvDisableTemporary, None)
        s2 == IF ~s1.splitMode
              THEN updateSplitButtons([s1 EXCEPT !.splitMode = TRUE])
              ELSE s1
        s3 == [s2 EXCEPT !.addingAuto = ~s2.addingAuto]
    IN  IF s3.addingAuto
        THEN fire([s3 EXCEPT !.addRidgeText = "Stop Adding"], EvRidgeStart, None)
        ELSE fire([s3 EXCEPT !.addRidgeText = "Add Ridge"], EvRidgeStop, None)

undoRidgeClick(s) == fire(fire(s, EvDisableTemporary, None), EvSplitUndo, None)

clearRidgesClick(s) == fire(fire(s, EvDisableTemporary, None), EvSplitClearAll, None)

doRedo(s, idx) == fire(fire(s, EvDisableTemporary, None), EvRedo, Some(idx))

\* doPick without the splitMode gate
doPickUngated(s, idx) ==
    fire(fire(s, EvDisableTemporary, None), EvSplitSelect, Some(idx))

doPick(s, idx) ==
    IF ~s.splitMode THEN s
    ELSE fire(fire(s, EvDisableTemporary, None), EvSplitSelect, Some(idx))

\* ----------------------------------------------------------- public methods
show(s) ==
    IF ~s.visible
    THEN updateSplitButtons([s EXCEPT !.visible = TRUE, !.display = "block"])
    ELSE s

\* hide that echoes the event it was called for instead of cancelling the split
hideFiresHide(s) ==
    IF s.visible
    THEN LET s1 == [s EXCEPT !.visible = FALSE, !.display = "none"]
             s2 == IF s1.splitMode
                   THEN updateSplitButtons([s1 EXCEPT !.splitMode = FALSE])
                   ELSE s1
             s3 == [s2 EXCEPT !.ridgeToggleText = "Start Ridges",
                              !.splitResultLabel = "",
                              !.planarityLabel = ""]
         IN  fire(fire(s3, EvRidgeStop, None), EvHide, None)
    ELSE s

\* hide that notifies the tool before it resets the split state
hideFiresFirst(s) ==
    IF s.visible
    THEN LET s1 == [s EXCEPT !.visible = FALSE, !.display = "none"]
             s2 == fire(fire(s1, EvRidgeStop, None), EvSplitCancel, None)
             s3 == IF s2.splitMode
                   THEN updateSplitButtons([s2 EXCEPT !.splitMode = FALSE])
                   ELSE s2
         IN  [s3 EXCEPT !.ridgeToggleText = "Start Ridges",
                        !.splitResultLabel = "",
                        !.planarityLabel = ""]
    ELSE s

\* hide that leaves the DOM element displayed
hideKeepsDisplay(s) ==
    IF s.visible
    THEN LET s1 == [s EXCEPT !.visible = FALSE]
             s2 == IF s1.splitMode
                   THEN updateSplitButtons([s1 EXCEPT !.splitMode = FALSE])
                   ELSE s1
             s3 == [s2 EXCEPT !.ridgeToggleText = "Start Ridges",
                              !.splitResultLabel = "",
                              !.planarityLabel = ""]
         IN  fire(fire(s3, EvRidgeStop, None), EvSplitCancel, None)
    ELSE s

hide(s) ==
    IF s.visible
    THEN LET s1 == [s EXCEPT !.visible = FALSE, !.display = "none"]
             s2 == IF s1.splitMode
                   THEN updateSplitButtons([s1 EXCEPT !.splitMode = FALSE])
                   ELSE s1
             s3 == [s2 EXCEPT !.ridgeToggleText = "Start Ridges",
                              !.splitResultLabel = "",
                              !.planarityLabel = ""]
         IN  fire(fire(s3, EvRidgeStop, None), EvSplitCancel, None)
    ELSE s

toggle(s) == IF s.visible THEN hide(s) ELSE show(s)

\* ------------------------------------- events delivered to the panel by the bus
\* area.measure.updated has two subscriptions, run in registration order
onUpdated(s, data) == [update(s, data) EXCEPT !.lastData = Some(data)]

\* area.measure.show is subscribed twice
onShow(s) == show(show(s))

onHide(s) == hide(s)

recvSplitCancel(s) == onSplitCancel(s)

recvRidgeStop(s) == onRidgeStop([s EXCEPT !.lastRidge = RidgeAfter(@, EvRidgeStop)])

\* ------------------------------------------------------------------ steps
Commit(s) ==
    /\ visible' = s.visible
    /\ display' = s.display
    /\ splitMode' = s.splitMode
    /\ lastData' = s.lastData
    /\ addingAuto' = s.addingAuto
    /\ ridgeToggleText' = s.ridgeToggleText
    /\ addRidgeText' = s.addRidgeText
    /\ splitResultLabel' = s.splitResultLabel
    /\ planarityLabel' = s.planarityLabel
    /\ pointRows' = s.pointRows
    /\ fired' = s.fired
    /\ renders' = s.renders
    /\ lastRidge' = s.lastRidge

Ran(name, idx) == op' = [name |-> name, idx |-> idx]

\* a button can be clicked only while the panel is displayed
Clickable == display = "block"

Init ==
    /\ visible = FALSE
    /\ display = "none"
    /\ splitMode = FALSE
    /\ lastData = None
    /\ addingAuto = FALSE
    /\ ridgeToggleText = "Start Ridges"
    /\ addRidgeText = "Add Ridge"
    /\ splitResultLabel = ""
    /\ planarityLabel = ""
    /\ pointRows = <<>>
    /\ fired = <<>>
    /\ renders = <<>>
    /\ lastRidge = "none"
    /\ lastUpdated = None
    /\ op = [name |-> "constructor", idx |-> None]

ClickClear ==
    /\ Clickable
    /\ Commit(clearAction(Entry)) /\ Ran("clear", None)
    /\ UNCHANGED lastUpdated

ClickClosePolygon ==
    /\ Clickable
    /\ Commit(closeAction(Entry)) /\ Ran("closePolygon", None)
    /\ UNCHANGED lastUpdated

ClickExit ==
    /\ Clickable
    /\ Commit(exitAction(Entry)) /\ Ran("exit", None)
    /\ UNCHANGED lastUpdated

ClickRidgeToggle ==
    /\ Clickable
    /\ Commit(ridgeToggleClick(Entry)) /\ Ran("ridgeToggle", None)
    /\ UNCHANGED lastUpdated

ClickAddRidge ==
    /\ Clickable
    /\ Commit(addRidgeClick(Entry)) /\ Ran("addRidge", None)
    /\ UNCHANGED lastUpdated

ClickUndoRidge ==
    /\ Clickable
    /\ Commit(undoRidgeClick(Entry)) /\ Ran("undoRidge", None)
    /\ UNCHANGED lastUpdated

ClickClearRidges ==
    /\ Clickable
    /\ Commit(clearRidgesClick(Entry)) /\ Ran("clearRidges", None)
    /\ UNCHANGED lastUpdated

ClickRedo ==
    /\ Clickable
    /\ \E i \in 1..Len(pointRows) :
          /\ pointRows[i].redo
          /\ Commit(doRedo(Entry, i - 1)) /\ Ran("redo", Some(i - 1))
    /\ UNCHANGED lastUpdated

\* the Pick button of a row exists only if the row was built in split mode
ClickPick ==
    /\ Clickable
    /\ \E i \in 1..Len(pointRows) :
          /\ pointRows[i].pick
          /\ Commit(doPick(Entry, i - 1)) /\ Ran("pick", Some(i - 1))
    /\ UNCHANGED lastUpdated

CallToggle ==
    /\ Commit(toggle(Entry)) /\ Ran("toggle", None)
    /\ UNCHANGED lastUpdated

CallShow ==
    /\ Commit(show(Entry)) /\ Ran("show", None)
    /\ UNCHANGED lastUpdated

CallHide ==
    /\ Commit(hide(Entry)) /\ Ran("hide", None)
    /\ UNCHANGED lastUpdated

RecvUpdated ==
    \E data \in AreaMeasurementData :
        /\ Commit(onUpdated(Entry, data)) /\ Ran(EvUpdated, None)
        /\ lastUpdated' = Some(data)

RecvShow ==
    /\ Commit(onShow(Entry)) /\ Ran(EvShow, None)
    /\ UNCHANGED lastUpdated

RecvHide ==
    /\ Commit(onHide(Entry)) /\ Ran(EvHide, None)
    /\ UNCHANGED lastUpdated

RecvSplitCancel ==
    /\ Commit(recvSplitCancel(Entry)) /\ Ran(EvSplitCancel, None)
    /\ UNCHANGED lastUpdated

RecvRidgeStop ==
    /\ Commit(recvRidgeStop(Entry)) /\ Ran(EvRidgeStop, None)
    /\ UNCHANGED lastUpdated

Next ==
    \/ ClickClear
    \/ ClickClosePolygon
    \/ ClickExit
    \/ ClickRidgeToggle
    \/ ClickAddRidge
    \/ ClickUndoRidge
    \/ ClickClearRidges
    \/ ClickRedo
    \/ ClickPick
    \/ CallToggle
    \/ CallShow
    \/ CallHide
    \/ RecvUpdated
    \/ RecvShow
    \/ RecvHide
    \/ RecvSplitCancel
    \/ RecvRidgeStop

Spec == Init /\ [][Next]_vars

TypeOK ==
    /\ visible \in BOOLEAN
    /\ display \in {"none", "block"}
    /\ splitMode \in BOOLEAN
    /\ lastData \subseteq AreaMeasurementData
    /\ addingAuto \in BOOLEAN
    /\ ridgeToggleText \in {"Start Ridges", "Stop Ridges"}
    /\ addRidgeText \in {"Add Ridge", "Stop Adding"}
    /\ lastRidge \in {"none", "start", "stop"}
    /\ Len(renders) <= 1

\* ------------------------------------------------------------ properties
E(name) == [name |-> name, arg |-> None]
EI(name, i) == [name |-> name, arg |-> Some(i)]
EventsOf(log) == [k \in 1..Len(log) |-> [name |-> log[k].name, arg |-> log[k].arg]]

\* C1: a run of doPick for row i fires disable.temporary then split.select(i)
\* exactly when splitMode is true at the click; when splitMode is false it
\* fires nothing and changes no panel state.
C1_PickGating ==
    [][op'.name = "pick" =>
          /\ splitMode <=>
                 EventsOf(fired') = <<E(EvDisableTemporary), EI(EvSplitSelect, Get(op'.idx))>>
          /\ ~splitMode => (fired' = <<>> /\ View(Panel)' = View(Panel))]_vars

C1_Witness ==
    /\ op.name = "pick"
    /\ Len(fired) = 2
    /\ fired[2].name = EvSplitSelect

Produced ==
    {EvDisableTemporary, EvClear, EvClosePolygon, EvExit, EvRidgeStart, EvRidgeStop,
     EvRedo, EvSplitSelect, EvSplitCancel, EvSplitUndo, EvSplitClearAll}
ConsumedOnly == {EvUpdated, EvShow, EvHide}

\* C2: every event a handler fires is one of the eleven produced events
\* (redo and split.select with an index, the others without), never one of
\* updated, show, hide.
C2_EventSurface ==
    \A k \in 1..Len(fired) :
        /\ fired[k].name \in Produced
        /\ fired[k].name \notin ConsumedOnly
        /\ IsSome(fired[k].arg) <=> fired[k].name \in {EvRedo, EvSplitSelect}

C2_Witness ==
    /\ op.name = EvHide
    /\ Len(fired) = 2

\* C3: lastData is the snapshot of the most recent area.measure.updated (null
\* before the first); no other handler changes it, and every re-render of
\* another handler renders that snapshot.
C3_SnapshotCache ==
    /\ [](lastData = lastUpdated)
    /\ [][op'.name # EvUpdated =>
             /\ lastData' = lastData
             /\ \A k \in 1..Len(renders') : Some(renders'[k]) = lastData]_vars

C3_Witness ==
    /\ op.name = EvRidgeStop
    /\ IsSome(lastUpdated)
    /\ renders = <<Get(lastUpdated)>>

\* C4: while visible is false, a received ridge.stop or split.cancel changes
\* no panel state, renders nothing and fires nothing.
C4_LateStopIgnored ==
    [][(~visible /\ op'.name \in {EvRidgeStop, EvSplitCancel}) =>
          /\ View(Panel)' = View(Panel)
          /\ renders' = <<>>
          /\ fired' = <<>>]_vars

C4_Witness ==
    /\ ~visible
    /\ op.name = EvRidgeStop
    /\ IsSome(lastData)
    /\ addingAuto

\* C5: after every handler, splitMode true implies that the most recent
\* ridge event on the bus is ridge.start.
C5_SplitModeImpliesStarted == splitMode => lastRidge = "start"

C5_Witness ==
    /\ splitMode
    /\ op.name = "addRidge"
    /\ lastRidge = "start"

\* C6 (as claimed): after every handler, if the most recent ridge event on
\* the bus is ridge.start then splitMode is true.
C6_Original == lastRidge = "start" => splitMode

OutOfSync == lastRidge = "start" /\ ~splitMode

\* C6 (amended): the panel gets into a state where the most recent ridge
\* event is ridge.start and splitMode is false only by a handler that
\* received split.cancel or that rendered a snapshot carrying splitAreas.
C6_Amended ==
    [][(OutOfSync' /\ ~OutOfSync) =>
          \/ op'.name = EvSplitCancel
          \/ \E k \in 1..Len(renders') : IsSome(renders'[k].splitAreas)]_vars

C6_Witness ==
    /\ OutOfSync
    /\ op.name = EvSplitCancel
    /\ visible

\* C7: hide on a visible panel (hide(), toggle(), area.measure.hide) ends
\* hidden, out of split mode, toggle reading 'Start Ridges', split-result and
\* planarity labels empty, having fired ridge.stop then split.cancel once
\* each, both after the reset; on a hidden panel it changes nothing and fires
\* nothing.
C7_Hide ==
    [][/\ (visible /\ op'.name \in {"hide", "toggle", EvHide}) =>
              /\ ~visible' /\ ~splitMode'
              /\ ridgeToggleText' = "Start Ridges"
              /\ splitResultLabel' = "" /\ planarityLabel' = ""
              /\ EventsOf(fired') = <<E(EvRidgeStop), E(EvSplitCancel)>>
              /\ \A k \in 1..Len(fired') :
                     /\ ~fired'[k].visible /\ ~fired'[k].splitMode
                     /\ fired'[k].ridgeToggleText = "Start Ridges"
                     /\ fired'[k].splitResultLabel = ""
                     /\ fired'[k].planarityLabel = ""
       /\ (~visible /\ op'.name \in {"hide", EvHide}) =>
              (View(Panel)' = View(Panel) /\ fired' = <<>>)]_vars

C7_Witness ==
    /\ op.name = "toggle"
    /\ ~visible
    /\ Len(fired) = 2
    /\ addingAuto

\* C8: with clicks possible only while the panel is displayed, after every
\* handler visible = false implies splitMode = false.
C8_HiddenNotSplit == ~visible => ~splitMode

C8_Witness ==
    /\ ~visible
    /\ op.name = EvUpdated
    /\ addingAuto
    /\ lastRidge = "stop"

\* C9 (as claimed): a ridge toggle click with splitMode false fires
\* disable.temporary then ridge.start and ends with splitMode true and the
\* button reading 'Stop Ridges'; with splitMode true it fires
\* disable.temporary then ridge.stop and ends with splitMode false and the
\* button reading 'Start Ridges'; whatever snapshot is cached.
C9_Original ==
    [][op'.name = "ridgeToggle" =>
          IF ~splitMode
          THEN /\ EventsOf(fired') = <<E(EvDisableTemporary), E(EvRidgeStart)>>
               /\ splitMode'
               /\ ridgeToggleText' = "Stop Ridges"
          ELSE /\ EventsOf(fired') = <<E(EvDisableTemporary), E(EvRidgeStop)>>
               /\ ~splitMode'
               /\ ridgeToggleText' = "Start Ridges"]_vars

\* C10 (as claimed): after every handler the ridge toggle reads 'Stop Ridges'
\* if and only if splitMode is true, and 'Start Ridges' otherwise.
C10_Original ==
    /\ ridgeToggleText = "Stop Ridges" <=> splitMode
    /\ ridgeToggleText = "Start Ridges" <=> ~splitMode

\* C11: one run of the Clear action fires disable.temporary, ridge.stop,
\* split.cancel, clear, in that order and nothing else; from ridge.stop on
\* splitMode is already false and the toggle reads 'Start Ridges', so the
\* panel's own subscriptions render nothing; visible and lastData are
\* unchanged; a second run right after the first leaves the panel state as
\* the first left it.
C11_Clear ==
    [][op'.name = "clear" =>
          /\ EventsOf(fired') = <<E(EvDisableTemporary), E(EvRidgeStop),
                                  E(EvSplitCancel), E(EvClear)>>
          /\ \A k \in 2..Len(fired') :
                 /\ ~fired'[k].splitMode
                 /\ fired'[k].ridgeToggleText = "Start Ridges"
          /\ renders' = <<>>
          /\ ~splitMode' /\ ridgeToggleText' = "Start Ridges"
          /\ visible' = visible /\ lastData' = lastData
          /\ op.name = "clear" => View(Panel)' = View(Panel)]_vars

C11_Witness ==
    /\ op.name = "clear"
    /\ Len(fired) = 4
    /\ fired[1].splitMode
    /\ IsSome(lastData)

ClickOps ==
    {"clear", "closePolygon", "exit", "ridgeToggle", "addRidge", "undoRidge",
     "clearRidges", "redo", "pick"}

\* the one event a forwarding button fires after disable.temporary
ForwardedBy(o) ==
    CASE o.name = "closePolygon" -> E(EvClosePolygon)
      [] o.name = "exit" -> E(EvExit)
      [] o.name = "undoRidge" -> E(EvSplitUndo)
      [] o.name = "clearRidges" -> E(EvSplitClearAll)
      [] o.name = "redo" -> EI(EvRedo, Get(o.idx))

\* C12: every click handler that fires at all (Pick only in split mode)
\* fires disable.temporary first, exactly once, and with splitMode still as
\* it was at the click; Close Polygon, Close, Undo Ridge, Clear Ridges and
\* Redo of row i fire after it only their own event and change no panel
\* state.
C12_DisableFirst ==
    [][/\ (op'.name \in ClickOps /\ (op'.name = "pick" => splitMode)) =>
              /\ Len(fired') >= 2
              /\ fired'[1].name = EvDisableTemporary
              /\ fired'[1].arg = None
              /\ fired'[1].splitMode = splitMode
              /\ fired'[1].ridgeToggleText = ridgeToggleText
              /\ \A k \in 2..Len(fired') : fired'[k].name # EvDisableTemporary
       /\ op'.name \in {"closePolygon", "exit", "undoRidge", "clearRidges", "redo"} =>
              /\ EventsOf(fired') = <<E(EvDisableTemporary), ForwardedBy(op')>>
              /\ View(Panel)' = View(Panel)
              /\ renders' = <<>>]_vars

C12_Witness ==
    /\ op.name = "ridgeToggle"
    /\ Len(fired) = 2
    /\ fired[1].splitMode
    /\ ~splitMode

\* the prompt for a selected point, by its index
SecondPointPrompt(k) ==
    CASE k = 0 -> "Pick second point (selected P1)..."
      [] k = 1 -> "Pick second point (selected P2)..."
      [] k = 2 -> "Pick second point (selected P3)..."
      [] k = 3 -> "Pick second point (selected P4)..."

\* C13: update(data) on a received area.measure.updated: with splitAreas it
\* ends out of split mode showing the split areas; otherwise, in split mode,
\* the label is 'Pick second point (selected P<k+1>)...' exactly when the
\* selection is one index k and 'Pick two points to split the polygon...'
\* when it is absent or of another length; otherwise the label is empty.
\* update never turns splitMode on and fires nothing.
C13_SplitResult ==
    [][op'.name = EvUpdated =>
          LET data == Get(lastUpdated')
              sel == data.splitSelection
          IN  /\ IF IsSome(data.splitAreas)
                 THEN /\ ~splitMode'
                      /\ Get(data.splitAreas) = [a |-> 1500, b |-> 2500, total |-> 4000]
                            => splitResultLabel' = "Split areas: 1.500 + 2.500 = 4.000"
                 ELSE IF splitMode
                 THEN /\ splitMode'
                      /\ IF IsSome(sel) /\ Len(Get(sel)) = 1
                         THEN splitResultLabel' = SecondPointPrompt(Get(sel)[1])
                         ELSE splitResultLabel' = "Pick two points to split the polygon..."
                 ELSE /\ ~splitMode'
                      /\ splitResultLabel' = ""
              /\ splitMode' => splitMode
              /\ fired' = <<>>
              /\ renders' = <<data>>]_vars

C13_Witness ==
    /\ op.name = EvUpdated
    /\ splitMode
    /\ IsSome(lastUpdated)
    /\ Get(lastUpdated).splitSelection = Some(<<1>>)
    /\ splitResultLabel = "Pick second point (selected P2)..."

\* C14 (as claimed): in every state with splitMode false, a click on Add
\* Ridge fires disable.temporary then ridge.start and ends with splitMode
\* true and the button reading 'Stop Adding'; and the button reads 'Stop
\* Adding' only while splitMode is true.
C14_Original ==
    /\ [](addRidgeText = "Stop Adding" => splitMode)
    /\ [][(op'.name = "addRidge" /\ ~splitMode) =>
             /\ EventsOf(fired') = <<E(EvDisableTemporary), E(EvRidgeStart)>>
             /\ splitMode'
             /\ addRidgeText' = "Stop Adding"]_vars

====
